---- MODULE Spec2Model ----
(***************************************************************************)
(* Model of the FSLAM dataset front end: FSLAM/src/main.cpp (option        *)
(* handling, playback plan, the session thread's playback loop, reset,     *)
(* finalization, shutdown, the SIGINT handler) and                         *)
(* FSLAM/src/util/DatasetReader.h (ImageFolderReader queries).             *)
(*                                                                         *)
(* Times are integers in milliseconds.  Plan positions (ii) count from 0   *)
(* as in the code; TLA+ sequences count from 1, so idsToPlay[ii + 1] is    *)
(* the code's idsToPlay[ii].                                               *)
(***************************************************************************)
EXTENDS Integers, Sequences, FiniteSets, TLC

(***************************************************************************)
(* Bounds of the model.                                                    *)
(***************************************************************************)
\* largest catalog of the session specification
MaxFrames == 3
\* catalog size of the long-plan specification (must exceed ResetBound)
LongFrames == 252
\* largest catalog / index magnitude of the plan-construction specification
MaxId == 4
\* engines that may be created after the first one
MaxResets == 2
\* the clock stops advancing by itself at this reading (ms)
MaxClock == 1200
\* most lines of times.txt
MaxLines == 3
\* largest timestamp of times.txt (s)
MaxStamp == 2

(***************************************************************************)
(* Program constants.                                                      *)
(***************************************************************************)
\* main.cpp:341  if(ii < 250 || setting_fullResetRequested)
ResetBound == 250
\* main.cpp:81   endindex default_value("100000")
DefaultEnd == 100000
\* DatasetReader.h:283  id*0.04f seconds, in ms
SyntheticStep == 40
\* main.cpp:322  0.5 seconds, in ms
SkipSlack == 500
\* main.cpp:322  0.1 seconds, in ms
SkipSlackOdd == 100
\* DatasetReader.h:371  widthOrg*heightOrg*6: bytes the first read accepts
SmallFactor == 6
\* DatasetReader.h:379  widthOrg*heightOrg*30: bytes the retry accepts
LargeFactor == 30
\* DatasetReader.h:371  the +10000 of the read requests
BufferSlack == 10000
\* DatasetReader.h:467  exposure 1.0f handed over when no series is loaded
NeutralExposure == 1

\* a double that is not finite: x/0 is +inf (x > 0) or NaN (x = 0)
Inf == [num |-> 1, den |-> 0]
NaN == [num |-> 0, den |-> 0]

\* fullSystem = nullptr (main.cpp:350)
NoEngine == [id |-> -1]
\* no frame decoded
NoImg == -1
\* numFramesProcessed (main.cpp:380) before it is computed, and the value left
\* by reading the ends of an empty plan
NoStats == -1
GarbageStats == -2
\* no pacing decision was taken yet (main.cpp:314)
NoPacing ==
  [elapsed |-> [num |-> 0, den |-> 1], slept |-> [num |-> 0, den |-> 1],
   target |-> [num |-> 0, den |-> 1], at |-> -1]
\* no call into the reader has returned yet
NoRet == [call |-> "none", returned |-> FALSE, id |-> 0, timestamp |-> 0,
          exposure |-> [num |-> 0, den |-> 1], size |-> 0, reads |-> 0,
          readbytes |-> 0]

VARIABLES
  args,                 \* parsed command line (main.cpp:96-112)
  reader,               \* ImageFolderReader: numImages, timestamps, gamma
  fullSystem,           \* the engine handle
  Pause,                \* process-wide pause flag
  setting_fullResetRequested,
  isDead,               \* viewer->isDead
  now,                  \* wall clock (ms)
  process,              \* "running", "exit1", "crashed", "returned"
  caught,               \* "Caught signal" was printed
  pc,                   \* position of the session thread (runthread)
  planI,                \* the i of the plan construction loop
  idsToPlay, timesToPlayAt, preloadedImages,
  ii, img, skipFrame, tv_start, sInitializerOffset, wraps,
  mpc,                  \* position of the main thread
  owIdx,                \* main thread: next collaborator to join and delete
  nEngines,             \* engines constructed so far
  fed,                  \* history: plan positions handed to addActiveFrame
  skipped,              \* history: plan positions marked skipFrame
  fedAfterDead,         \* history: frames handed while isDead was set
  lostSeen,             \* history: the isLost check saw tracking loss
  finLog,               \* history: finalization steps, with the engine used
  owLog,                \* history: join and delete calls on output collaborators
  owResets,             \* history: reset() calls per output collaborator
  asked,                \* history: ids passed to getImage / getTimestamp
  pausedWork,           \* history: work done since Pause was last set
  lossReported,         \* history: an engine reported tracking loss after a frame
  stats,                \* numFramesProcessed, NoStats before it is computed
  pacing,               \* history: the last pacing decision (elapsed, slept)
  ret                   \* what the last call into the reader returned

vars == <<args, reader, fullSystem, Pause, setting_fullResetRequested, isDead,
          now, process, caught, pc, planI, idsToPlay, timesToPlayAt,
          preloadedImages, ii, img, skipFrame, tv_start, sInitializerOffset, wraps, mpc, owIdx,
          nEngines, fed, skipped, fedAfterDead, lostSeen, finLog, owLog,
          owResets, asked, pausedWork, lossReported, stats, pacing, ret>>

envVars == <<Pause, setting_fullResetRequested, isDead, now, process, caught>>
planVars == <<planI, idsToPlay, timesToPlayAt, preloadedImages>>
loopVars == <<ii, img, skipFrame, tv_start, sInitializerOffset, wraps>>
mainVars == <<mpc, owIdx>>
histVars == <<fed, skipped, fedAfterDead, lostSeen, finLog, owLog, owResets,
              asked, pausedWork, lossReported, stats, pacing>>
cfgVars == <<args, reader, ret>>

Abs(x) == IF x < 0 THEN -x ELSE x
Min(a, b) == IF a < b THEN a ELSE b
Max(a, b) == IF a > b THEN a ELSE b
Sign(x) == IF x > 0 THEN 1 ELSE IF x < 0 THEN -1 ELSE 0

RECURSIVE GCD(_, _)
GCD(a, b) == IF b = 0 THEN a ELSE GCD(b, a % b)

\* The floating-point values of the code that are not whole (the times of
\* main.cpp:266,318,322 in ms, the exposures of DatasetReader.h:525) are
\* kept as fractions num/den in lowest terms, den > 0. The quotient n/d of
\* a division; d = 0 gives +inf, -inf or NaN (den = 0, num the sign)
Frac(n, d) ==
  LET g == GCD(Abs(n), Abs(d))
      s == IF d < 0 THEN -1 ELSE 1
  IN IF g = 0 THEN [num |-> 0, den |-> 0]
     ELSE [num |-> s * (n \div g), den |-> s * (d \div g)]

\* a whole value
Whole(n) == [num |-> n, den |-> 1]
Finite(a) == a.den # 0
Neg(a) == [num |-> -a.num, den |-> a.den]

\* a + b; inf and NaN absorb, inf - inf is NaN
Plus(a, b) ==
  IF Finite(a) /\ Finite(b)
    THEN Frac(a.num * b.den + b.num * a.den, a.den * b.den)
  ELSE IF a = NaN \/ b = NaN THEN NaN
  ELSE IF ~Finite(a) /\ ~Finite(b) THEN (IF a = b THEN a ELSE NaN)
  ELSE IF Finite(a) THEN b ELSE a

\* a < b; every comparison with NaN is false
Less(a, b) ==
  IF a = NaN \/ b = NaN THEN FALSE
  ELSE IF ~Finite(a) /\ ~Finite(b) THEN a.num < b.num
  ELSE a.num * b.den < b.num * a.den

\* the least whole number not below a finite a
Ceil(a) == -((-a.num) \div a.den)

(***************************************************************************)
(* main(): options, presets, plan bounds (main.cpp:96-230)                 *)
(***************************************************************************)
\* main.cpp:158-191: presets 0..3 overwrite the speed read from --speed
playbackSpeed ==
  IF args.preset = 0 \/ args.preset = 1
    THEN (IF args.preset = 0 THEN 0 ELSE 1)
    ELSE IF args.preset = 2 \/ args.preset = 3
      THEN (IF args.preset = 2 THEN 0 ELSE 5)
      ELSE args.speed

\* main.cpp:98,179: preset 2 or 3 sets preload = (preset == 3)
preload ==
  IF args.preset = 2 \/ args.preset = 3 THEN args.preset = 3 ELSE args.preload

\* DatasetReader.h:260-263
getNumImages == reader.numImages

\* mutant: the reversed start is not clamped to the catalog
lstartNoClamp == IF args.reverse THEN args.endindex - 1 ELSE args.startindex

\* main.cpp:218-230
lstart ==
  IF args.reverse
    THEN (IF args.endindex - 1 >= getNumImages
            THEN getNumImages - 1 ELSE args.endindex - 1)
    ELSE args.startindex

\* mutant: the reversed plan runs down to the start index inclusive
lendInclusive == IF args.reverse THEN args.startindex - 1 ELSE args.endindex

\* main.cpp:218-230
lend == IF args.reverse THEN args.startindex ELSE args.endindex
linc == IF args.reverse THEN -1 ELSE 1

\* mutant: no synthetic clock without a loaded series
getTimestampZero(id) ==
  IF Len(reader.timestamps) = 0 THEN 0
  ELSE IF id >= Len(reader.timestamps) THEN 0
  ELSE IF id < 0 THEN 0
  ELSE reader.timestamps[id + 1]

\* DatasetReader.h:281-287
getTimestamp(id) ==
  IF Len(reader.timestamps) = 0 THEN id * SyntheticStep
  ELSE IF id >= Len(reader.timestamps) THEN 0
  ELSE IF id < 0 THEN 0
  ELSE reader.timestamps[id + 1]

\* main.cpp:266: fabs(tsThis-tsPrev)/playbackSpeed, a floating-point
\* division of d ms: the quotient is kept exactly, a division by 0 gives
\* inf or NaN
DivSpeed(d, speed) == Frac(d, speed)

\* main.cpp:266: timesToPlayAt.back() + ..., with inf and NaN absorbing
AddTime(a, b) == Plus(a, b)

\* mutant: the catalog size is not checked
PlanCondNoUpper(i) == i >= 0 /\ linc * i < linc * lend

\* main.cpp:255: the loop condition of the plan construction
PlanCond(i) == i >= 0 /\ i < getNumImages /\ linc * i < linc * lend

\* mutant: the timestamp difference keeps its sign
NextTimeSigned(ids, times) ==
  IF Len(times) = 0 THEN Whole(0)
  ELSE AddTime(times[Len(times)],
         DivSpeed(getTimestamp(ids[Len(ids)]) - getTimestamp(ids[Len(ids) - 1]),
                  playbackSpeed))

\* main.cpp:264-266: the target offset of the id just pushed
NextTime(ids, times) ==
  IF Len(times) = 0 THEN Whole(0)
  ELSE AddTime(times[Len(times)],
         DivSpeed(Abs(getTimestamp(ids[Len(ids)]) - getTimestamp(ids[Len(ids) - 1])),
                  playbackSpeed))

(***************************************************************************)
(* The engine (FullSystem) and the output collaborators                    *)
(***************************************************************************)
\* main.cpp:238-248: viewer first, then the sample output wrapper
Wrappers ==
  (IF args.nogui THEN <<>> ELSE <<"viewer">>)
    \o (IF args.usesampleoutput THEN <<"sample">> ELSE <<>>)

\* main.cpp:238-243
viewer == IF args.nogui THEN 0 ELSE 1

\* mutant: the engine is built in real-time mode whatever the speed
NewEngineRealTime(n) ==
  [id |-> n, initialized |-> FALSE, initFailed |-> FALSE, isLost |-> FALSE,
   gamma |-> reader.gamma, linearizeOperation |-> FALSE,
   outputWrapper |-> <<>>]

\* main.cpp:234-236 and 353-355: new FullSystem(), setGammaFunction,
\* linearizeOperation; a fresh engine reports nothing yet
NewEngine(n) ==
  [id |-> n, initialized |-> FALSE, initFailed |-> FALSE, isLost |-> FALSE,
   gamma |-> reader.gamma, linearizeOperation |-> (playbackSpeed = 0),
   outputWrapper |-> <<>>]

\* main.cpp:234-248: the engine as the session thread finds it
FirstEngine == [NewEngine(0) EXCEPT !.outputWrapper = Wrappers]

\* mutant: the collaborator list is not re-attached
ReplacementEngineNoWraps(n, ws) == NewEngine(n)

\* main.cpp:353-357: the replacement engine of a reset
ReplacementEngine(n, ws) == [NewEngine(n) EXCEPT !.outputWrapper = ws]

(***************************************************************************)
(* Initial states: main() has run up to the start of runthread             *)
(* (main.cpp:252)                                                          *)
(***************************************************************************)
InitWith(a, r, clock) ==
  /\ args = a
  /\ reader = r
  /\ fullSystem = FirstEngine
  /\ Pause = FALSE
  /\ setting_fullResetRequested = FALSE
  /\ isDead = FALSE
  /\ now = clock
  /\ process = "running"
  /\ caught = FALSE
  /\ pc = "plan"
  /\ planI = lstart
  /\ idsToPlay = <<>> /\ timesToPlayAt = <<>> /\ preloadedImages = <<>>
  /\ ii = 0 /\ img = NoImg /\ skipFrame = FALSE
  /\ tv_start = 0 /\ sInitializerOffset = Whole(0) /\ wraps = <<>>
  /\ mpc = "run" /\ owIdx = 0
  /\ nEngines = 1
  /\ fed = <<>> /\ skipped = {} /\ fedAfterDead = 0 /\ lostSeen = FALSE
  /\ finLog = <<>> /\ owLog = <<>> /\ stats = NoStats
  /\ owResets = [w \in {"viewer", "sample"} |-> 0]
  /\ asked = {} /\ pausedWork = <<>> /\ lossReported = FALSE
  /\ pacing = NoPacing /\ ret = NoRet

(***************************************************************************)
(* The session thread: plan, preload (main.cpp:252-285)                    *)
(***************************************************************************)
Running == process = "running"

\* gettimeofday: the clock has advanced by some amount since the last reading
Elapse == {0, 600}
ClockReadings == {now} \cup {now + d : d \in {e \in Elapse : now + e <= MaxClock}}

\* history: work done while the pause flag is set
NoteWork(kind) == IF Pause THEN Append(pausedWork, kind) ELSE pausedWork

\* main.cpp:253-268: one pass of the for loop that fills idsToPlay and
\* timesToPlayAt; planI is the loop's i
BuildPlan ==
  /\ Running /\ pc = "plan"
  /\ IF PlanCond(planI)
       THEN /\ idsToPlay' = Append(idsToPlay, planI)
            /\ timesToPlayAt' =
                 Append(timesToPlayAt, NextTime(Append(idsToPlay, planI), timesToPlayAt))
            /\ asked' = IF Len(idsToPlay) = 0 THEN asked
                        ELSE asked \cup {planI, idsToPlay[Len(idsToPlay)]}
            /\ planI' = planI + linc
            /\ pc' = pc
       ELSE /\ pc' = "preload"
            /\ UNCHANGED <<idsToPlay, timesToPlayAt, planI, asked>>
  /\ UNCHANGED <<cfgVars, fullSystem, envVars, preloadedImages, loopVars,
                 mainVars, nEngines, fed, skipped, fedAfterDead, lostSeen,
                 finLog, owLog, owResets, pausedWork, lossReported, stats,
                 pacing>>

\* mutant: the first overflow is fatal, the read is never retried
RawReadNoRetry(buf, size, wh) ==
  LET cap0 == IF buf = 0 THEN wh * SmallFactor + BufferSlack ELSE buf
      r1 == Min(size, wh * SmallFactor + BufferSlack)
  IN [databuffer |-> cap0, reads |-> 1, readbytes |-> r1,
      overflow |-> r1 > cap0, abort |-> r1 > wh * SmallFactor]

\* DatasetReader.h:371-388: the reads of one archive entry of `size' bytes
\* into databuffer (buf is its capacity, 0 when not yet allocated)
RawRead(buf, size, wh) ==
  LET cap0 == IF buf = 0 THEN wh * SmallFactor + BufferSlack ELSE buf
      r1 == Min(size, wh * SmallFactor + BufferSlack)
      r2 == Min(size, wh * LargeFactor + BufferSlack)
  IN IF r1 > wh * SmallFactor
       THEN [databuffer |-> wh * LargeFactor, reads |-> 2, readbytes |-> r2,
             overflow |-> (r1 > cap0 \/ r2 > wh * LargeFactor),
             abort |-> r2 > wh * LargeFactor]
       ELSE [databuffer |-> cap0, reads |-> 1, readbytes |-> r1,
             overflow |-> r1 > cap0, abort |-> FALSE]

\* the entry sizes around the thresholds of the reader
EntrySizes ==
  LET wh == reader.widthOrg * reader.heightOrg
  IN {1, wh * SmallFactor, wh * SmallFactor + 1,
      wh * SmallFactor + BufferSlack + 1, wh * LargeFactor,
      wh * LargeFactor + 1, wh * LargeFactor + BufferSlack + 1}

\* DatasetReader.h:328-331, 360-396: reader->getImage for the plan positions
\* k, k+1, ... in turn, the archive entry of position j holding sizes[j]
\* bytes and buf being the capacity of databuffer: the outcomes as the
\* capacity left behind, the number of calls made and the state of the
\* process. A call that aborts is the last one; a write past the end of
\* databuffer is undefined, the process may fault in it
RECURSIVE ReadFrames(_, _, _)
ReadFrames(buf, sizes, k) ==
  IF k > Len(sizes)
    THEN {[databuffer |-> buf, calls |-> Len(sizes), process |-> "running"]}
    ELSE LET rr == RawRead(buf, sizes[k], reader.widthOrg * reader.heightOrg)
             faults == IF rr.overflow
                         THEN {[databuffer |-> rr.databuffer, calls |-> k,
                                process |-> "crashed"]}
                         ELSE {}
         IN IF rr.abort
              THEN faults \cup {[databuffer |-> rr.databuffer, calls |-> k,
                                 process |-> "exit1"]}
              ELSE faults \cup ReadFrames(rr.databuffer, sizes, k + 1)

\* main.cpp:278,310: n calls of reader->getImage; only a .zip dataset is
\* read through databuffer (DatasetReader.h:362-366)
FetchFrames(n) ==
  IF reader.isZipped
    THEN UNION {ReadFrames(reader.databuffer, sizes, 1) :
                  sizes \in [1..n -> EntrySizes]}
    ELSE {[databuffer |-> reader.databuffer, calls |-> n,
           process |-> "running"]}

\* main.cpp:271-285: preload pass, then tv_start and sInitializerOffset; a
\* preload pass that ends the process in its call number f.calls has pushed
\* the frames of the calls before it (main.cpp:278)
PreloadAll ==
  /\ Running /\ pc = "preload"
  /\ \E f \in FetchFrames(IF preload THEN Len(idsToPlay) ELSE 0) :
       /\ reader' = [reader EXCEPT !.databuffer = f.databuffer]
       /\ process' = f.process
       /\ asked' = asked \cup {idsToPlay[k] : k \in 1..f.calls}
       /\ IF f.process = "running"
            THEN /\ preloadedImages' = IF preload THEN idsToPlay ELSE <<>>
                 /\ \E t \in ClockReadings :
                      /\ now' = t
                      /\ tv_start' = t
                 /\ sInitializerOffset' = Whole(0)
                 /\ pc' = IF 0 < Len(idsToPlay) THEN "pause" ELSE "block"
            ELSE /\ preloadedImages' = SubSeq(idsToPlay, 1, f.calls - 1)
                 /\ UNCHANGED <<now, tv_start, sInitializerOffset, pc>>
  /\ UNCHANGED <<args, ret, fullSystem, Pause, setting_fullResetRequested,
                 isDead, caught, planI, idsToPlay, timesToPlayAt, ii,
                 img, skipFrame, wraps, mainVars, nEngines, fed, skipped,
                 fedAfterDead, lostSeen, finLog, owLog, owResets, pausedWork,
                 lossReported, stats,
                 pacing>>

(***************************************************************************)
(* The playback loop (main.cpp:288-369)                                    *)
(***************************************************************************)
\* mutant: the pause flag is not polled
PauseLoopIgnore ==
  /\ Running /\ pc = "pause"
  /\ pc' = "decode"
  /\ UNCHANGED <<cfgVars, fullSystem, envVars, planVars, loopVars, mainVars,
                 nEngines, histVars>>

\* main.cpp:290-293: while (Pause) usleep(5000); the time slept shows at the
\* next clock reading
PauseLoop ==
  /\ Running /\ pc = "pause"
  /\ pc' = IF Pause THEN "pause" ELSE "decode"
  /\ UNCHANGED <<cfgVars, fullSystem, envVars, planVars, loopVars, mainVars,
                 nEngines, histVars>>

\* mutant: the start time is never re-anchored
NeedsAnchorNever == FALSE

\* main.cpp:296: if(!fullSystem->initialized)
NeedsAnchor == ~fullSystem.initialized

\* main.cpp:296-310: re-anchor while not initialized, then fetch the frame,
\* from the preloaded ones or from the reader; a fetch that ends the process
\* ends it after the re-anchoring, with no frame fetched
Decode ==
  /\ Running /\ pc = "decode"
  /\ IF NeedsAnchor
       THEN /\ \E t \in ClockReadings : now' = t /\ tv_start' = t
            /\ sInitializerOffset' = timesToPlayAt[ii + 1]
       ELSE UNCHANGED <<now, tv_start, sInitializerOffset>>
  /\ \E f \in FetchFrames(IF preload THEN 0 ELSE 1) :
       /\ reader' = [reader EXCEPT !.databuffer = f.databuffer]
       /\ process' = f.process
       /\ asked' = IF preload THEN asked ELSE asked \cup {idsToPlay[ii + 1]}
       /\ IF f.process = "running"
            THEN /\ img' = IF preload THEN preloadedImages[ii + 1]
                           ELSE idsToPlay[ii + 1]
                 /\ pausedWork' = NoteWork("decode")
                 /\ pc' = "pace"
            ELSE UNCHANGED <<img, pausedWork, pc>>
  /\ UNCHANGED <<args, ret, fullSystem, Pause, setting_fullResetRequested,
                 isDead, caught, planVars, ii, skipFrame, wraps,
                 mainVars, nEngines, fed, skipped, fedAfterDead, lostSeen,
                 finLog, owLog, owResets, lossReported, stats,
                 pacing>>

\* main.cpp:318
sSinceStart(t) == Plus(sInitializerOffset, Whole(t - tv_start))

\* the exponent of the binade of n, 1 <= n < 2^31
Log2(n) == CHOOSE j \in 0..30 : 2^j <= n /\ (j = 30 \/ n < 2^(j + 1))

\* m / u rounded to the nearest integer, ties to even (IEEE 754 default)
RoundEven(m, u) ==
  LET q == m \div u
      r == m % u
  IN IF 2 * r < u THEN q
     ELSE IF 2 * r > u THEN q + 1
     ELSE IF q % 2 = 0 THEN q ELSE q + 1

\* The times of the code are doubles; the model keeps each as its value in
\* milliseconds plus a deviation in units of 2^-33/125 s, that is zero
\* unless single-precision arithmetic produced the time.
\*
\* main.cpp:318: (tv_now.tv_sec-tv_start.tv_sec) +
\* (tv_now.tv_usec-tv_start.tv_usec)/(1000.0f*1000.0f) is evaluated in
\* single precision: the quotient is rounded to 24 bits, and so is its sum
\* with the difference of the seconds. The result is the rounded value
\* minus the exact elapsed time, for readings from (ms) and to (ms),
\* from <= to. With k the binade of the quotient, p = -k, the quantities of
\* the LET are in units of 2^(k-23)/125 s.
FloatDev(from, to) ==
  LET secd == (to \div 1000) - (from \div 1000)
      msd == (to % 1000) - (from % 1000)
      am == Abs(msd)
      p == CHOOSE e \in 1..10 : am * 2^e >= 1000 /\ am * 2^(e - 1) < 1000
      n == am * 2^(20 + p)
      M == RoundEven(n, 125)
      uexp == IF secd = 0 THEN 0
              ELSE IF msd > 0 THEN Log2(secd) + p
              ELSE IF secd = 1 THEN p - 1
              ELSE Log2(secd - 1) + p
      R == RoundEven(M, 2^uexp)
      d == (125 * R * 2^uexp - n) * 2^(10 - p)
  IN IF msd = 0 THEN 0 ELSE IF msd > 0 THEN d ELSE -d

\* the direction in which main.cpp:318 rounds the elapsed time
FloatBias(from, to) == Sign(FloatDev(from, to))

\* DatasetReader.h:283: id*0.04f is a single-precision product. 0.04f is
\* 10737418 * 2^-28 = 2 * 5368709 * 2^-28; the product keeps 24 bits. The
\* result is the product minus id * 40 ms
SyntheticDev(id) ==
  LET a == Abs(id)
      P == a * 5368709
      s == Log2(P) - 22
      kept == IF s <= 0 THEN P ELSE RoundEven(P, 2^(s - 1)) * 2^(s - 1)
  IN IF id = 0 THEN 0 ELSE Sign(id) * 160 * (50 * (kept - P) - 6 * a)

\* DatasetReader.h:281-287: the deviation of getTimestamp(id); the stamps of
\* times.txt are read as doubles
StampDev(id) == IF Len(reader.timestamps) = 0 THEN SyntheticDev(id) ELSE 0

\* main.cpp:264-266: the deviation of timesToPlayAt[k], a fraction; the ids
\* of a plan go one way, so the absolute differences add up to the
\* difference of the ends, divided by the speed, whatever its sign
PlayAtDev(k) ==
  IF k <= 1 \/ playbackSpeed = 0 THEN Whole(0)
  ELSE Frac(Sign(idsToPlay[k] - idsToPlay[1])
              * (StampDev(idsToPlay[k]) - StampDev(idsToPlay[1])),
            playbackSpeed)

\* main.cpp:285,300: sInitializerOffset is 0 or a copy of a target
AnchorDev ==
  LET at == {k \in 1..Len(timesToPlayAt) : timesToPlayAt[k] = sInitializerOffset}
  IN IF at = {} THEN Whole(0) ELSE PlayAtDev(CHOOSE k \in at : TRUE)

\* main.cpp:318,322: the sign of sSinceStart minus timesToPlayAt[ii] in the
\* part below the millisecond
LateDev(t) ==
  Sign(Plus(Plus(AnchorDev, Whole(FloatDev(tv_start, t))),
            Neg(PlayAtDev(ii + 1))).num)

PowerOfTwo(n) == \E j \in 0..30 : n = 2^j

\* main.cpp:266,318,322: the quotients and the double sums are exact when
\* the speed is a power of two, and the two sides are the same double when
\* the offset is the target itself
ExactSums ==
  PowerOfTwo(Abs(playbackSpeed)) \/ timesToPlayAt[ii + 1] = sInitializerOffset

\* mutant: the extra slack of odd plan positions is dropped
SkipLimitNoParity == Plus(timesToPlayAt[ii + 1], Whole(SkipSlack))

\* main.cpp:322: the lateness beyond which the frame is skipped
SkipLimit ==
  Plus(timesToPlayAt[ii + 1], Whole(SkipSlack + SkipSlackOdd * (ii % 2)))

\* main.cpp:322: sSinceStart > timesToPlayAt[ii]+0.5+0.1*(ii%2) on the values
\* the code computes, as the set of the outcomes: when the two sides agree to
\* the millisecond the deviations decide; when these cancel as well the two
\* sides are equal if the sums are exact, and otherwise the last bits of
\* the doubles, which the model does not carry, decide
TooLate(t) ==
  IF sSinceStart(t) # SkipLimit \/ ~Finite(SkipLimit)
    THEN {Less(SkipLimit, sSinceStart(t))}
  ELSE IF LateDev(t) # 0 THEN {LateDev(t) > 0}
  ELSE IF ExactSums THEN {FALSE}
  ELSE BOOLEAN

\* main.cpp:317: the readings of ClockReadings, and, in an iteration that
\* measures from an earlier target, the one at which sSinceStart is on the
\* skip limit to the millisecond
PaceReadings ==
  LET d == Plus(SkipLimit, Neg(sInitializerOffset))
  IN ClockReadings
       \cup {t \in (IF d.den = 1 THEN {tv_start + d.num} ELSE {}) :
               /\ sInitializerOffset # timesToPlayAt[ii + 1]
               /\ t >= now /\ t <= MaxClock}

\* history: the decision of main.cpp:318-326 for the frame at position ii
Paced(t, sleep) ==
  [elapsed |-> sSinceStart(t), slept |-> sleep,
   target |-> timesToPlayAt[ii + 1], at |-> ii]

\* main.cpp:320: the time to sleep at the reading t
Ahead(t) == Plus(timesToPlayAt[ii + 1], Neg(sSinceStart(t)))

\* main.cpp:314-327; usleep returns when the time asked for has passed, the
\* clock then shows the first whole millisecond from there
Pace ==
  /\ Running /\ pc = "pace"
  /\ IF playbackSpeed # 0
       THEN \E t \in PaceReadings :
              IF Less(sSinceStart(t), timesToPlayAt[ii + 1])
                THEN /\ now' = t + Ceil(Ahead(t))
                     /\ skipFrame' = FALSE
                     /\ skipped' = skipped
                     /\ pacing' = Paced(t, Ahead(t))
              ELSE \E late \in TooLate(t) :
                     /\ now' = t
                     /\ skipFrame' = late
                     /\ skipped' = IF late THEN skipped \cup {ii} ELSE skipped
                     /\ pacing' = Paced(t, Whole(0))
       ELSE /\ skipFrame' = FALSE
            /\ UNCHANGED <<now, skipped, pacing>>
  /\ pc' = "feed"
  /\ UNCHANGED <<cfgVars, fullSystem, Pause, setting_fullResetRequested,
                 isDead, process, caught, planVars, ii, img, tv_start,
                 sInitializerOffset, wraps, mainVars, nEngines, fed,
                 fedAfterDead, lostSeen, finLog, owLog, owResets, asked,
                 pausedWork, lossReported, stats>>

\* FullSystem::addActiveFrame: what the engine may report after a frame;
\* a flag once raised stays raised for the life of that engine
EngineOutcomes(e) ==
  {[e EXCEPT !.initialized = i, !.initFailed = f, !.isLost = l] :
     i \in {e.initialized, TRUE}, f \in {e.initFailed, TRUE},
     l \in {e.isLost, TRUE}}

\* mutant: the frame is handed to the engine even when marked skipped
HandFrameAlways(skip) ==
  /\ fullSystem' \in EngineOutcomes(fullSystem)
  /\ fed' = Append(fed, ii)
  /\ fedAfterDead' = IF isDead THEN Min(fedAfterDead + 1, 2) ELSE fedAfterDead
  /\ pausedWork' = NoteWork("feed")
  /\ lossReported' = (lossReported \/ fullSystem'.isLost)

\* main.cpp:330: if (!skipFrame) fullSystem->addActiveFrame(img, i)
HandFrame(skip) ==
  IF ~skip
    THEN /\ fullSystem' \in EngineOutcomes(fullSystem)
         /\ fed' = Append(fed, ii)
         /\ fedAfterDead' = IF isDead THEN Min(fedAfterDead + 1, 2)
                            ELSE fedAfterDead
         /\ pausedWork' = NoteWork("feed")
         /\ lossReported' = (lossReported \/ fullSystem'.isLost)
    ELSE UNCHANGED <<fullSystem, fed, fedAfterDead, pausedWork, lossReported>>

\* main.cpp:330-333
addActiveFrame ==
  /\ Running /\ pc = "feed"
  /\ HandFrame(skipFrame)
  /\ img' = NoImg
  /\ pc' = "isDead"
  /\ UNCHANGED <<cfgVars, envVars, planVars, ii, skipFrame, tv_start,
                 sInitializerOffset, wraps, mainVars, nEngines, skipped,
                 lostSeen, finLog, owLog, owResets, asked, stats,
                 pacing>>

\* mutant: the display's liveness flag is not polled
CheckDeadNever ==
  /\ Running /\ pc = "isDead"
  /\ pc' = "chkReset"
  /\ UNCHANGED <<cfgVars, fullSystem, envVars, planVars, loopVars, mainVars,
                 nEngines, histVars>>

\* main.cpp:335-337
CheckDead ==
  /\ Running /\ pc = "isDead"
  /\ pc' = IF viewer # 0 /\ isDead THEN "block" ELSE "chkReset"
  /\ UNCHANGED <<cfgVars, fullSystem, envVars, planVars, loopVars, mainVars,
                 nEngines, histVars>>

\* main.cpp:339
CheckReset ==
  /\ Running /\ pc = "chkReset"
  /\ pc' = IF fullSystem.initFailed \/ setting_fullResetRequested
             THEN "chkBound" ELSE "isLost"
  /\ UNCHANGED <<cfgVars, fullSystem, envVars, planVars, loopVars, mainVars,
                 nEngines, histVars>>

\* mutant: the bound is compared with <=
ResetEligibleOffByOne == ii <= ResetBound \/ setting_fullResetRequested

\* mutant: the reset bound is compared with the frame id
ResetEligibleById ==
  idsToPlay[ii + 1] < ResetBound \/ setting_fullResetRequested

\* main.cpp:341
ResetEligible == ii < ResetBound \/ setting_fullResetRequested

\* main.cpp:341
CheckBound ==
  /\ Running /\ pc = "chkBound"
  /\ pc' = IF ResetEligible THEN "reset" ELSE "isLost"
  /\ UNCHANGED <<cfgVars, fullSystem, envVars, planVars, loopVars, mainVars,
                 nEngines, histVars>>

\* the handle of the next engine (an address may be reused after delete)
NextId(id) == (id + 1) % (MaxResets + 1)

\* main.cpp:345: for(ow : wraps) ow->reset()
ResetAll(ws) ==
  [w \in DOMAIN owResets |->
     IF \E k \in 1..Len(ws) : ws[k] = w
       THEN Min(owResets[w] + 1, MaxResets + 1) ELSE owResets[w]]

\* main.cpp:343-345: the collaborators are copied and reset; the session
\* thread then sleeps in usleep(20000) with the old engine still installed
ResetWrappers ==
  /\ Running /\ pc = "reset"
  /\ wraps' = fullSystem.outputWrapper
  /\ owResets' = ResetAll(fullSystem.outputWrapper)
  /\ pausedWork' = NoteWork("reset")
  /\ pc' = "recreate"
  /\ UNCHANGED <<cfgVars, fullSystem, envVars, planVars, ii, img, skipFrame,
                 tv_start, sInitializerOffset, mainVars, nEngines, fed,
                 skipped, fedAfterDead, lostSeen, finLog, owLog, asked,
                 lossReported, stats, pacing>>

\* main.cpp:346-357: after the sleep the old engine is deleted and a new one
\* is built with the copied collaborators
ResetEngine ==
  /\ Running /\ pc = "recreate"
  /\ fullSystem' = ReplacementEngine(NextId(fullSystem.id), wraps)
  /\ nEngines' = Min(nEngines + 1, MaxResets + 1)
  /\ pc' = "clearFlag"
  /\ UNCHANGED <<cfgVars, envVars, planVars, loopVars, mainVars, histVars>>

\* mutant: the request is left asserted after the reset
ClearResetRequestKeep ==
  /\ Running /\ pc = "clearFlag"
  /\ setting_fullResetRequested' = setting_fullResetRequested
  /\ pc' = "isLost"
  /\ UNCHANGED <<cfgVars, fullSystem, Pause, isDead, now, process, caught,
                 planVars, loopVars, mainVars, nEngines, histVars>>

\* main.cpp:359
ClearResetRequest ==
  /\ Running /\ pc = "clearFlag"
  /\ setting_fullResetRequested' = FALSE
  /\ pc' = "isLost"
  /\ UNCHANGED <<cfgVars, fullSystem, Pause, isDead, now, process, caught,
                 planVars, loopVars, mainVars, nEngines, histVars>>

\* mutant: tracking loss does not end the loop
CheckLostNoBreak ==
  /\ Running /\ pc = "isLost"
  /\ lostSeen' = (lostSeen \/ fullSystem.isLost)
  /\ ii' = ii + 1
  /\ pc' = IF ii + 1 < Len(idsToPlay) THEN "pause" ELSE "block"
  /\ UNCHANGED <<cfgVars, fullSystem, envVars, planVars, img, skipFrame,
                 tv_start, sInitializerOffset, wraps, mainVars, nEngines, fed,
                 skipped, fedAfterDead, finLog, owLog, owResets, asked,
                 pausedWork, lossReported, stats,
                 pacing>>

\* main.cpp:363-367, then ii++ and the loop condition of main.cpp:288
CheckLost ==
  /\ Running /\ pc = "isLost"
  /\ IF fullSystem.isLost
       THEN /\ lostSeen' = TRUE
            /\ pc' = "block"
            /\ ii' = ii
       ELSE /\ lostSeen' = lostSeen
            /\ ii' = ii + 1
            /\ pc' = IF ii + 1 < Len(idsToPlay) THEN "pause" ELSE "block"
  /\ UNCHANGED <<cfgVars, fullSystem, envVars, planVars, img, skipFrame,
                 tv_start, sInitializerOffset, wraps, mainVars, nEngines, fed,
                 skipped, fedAfterDead, finLog, owLog, owResets, asked,
                 pausedWork, lossReported, stats,
                 pacing>>

(***************************************************************************)
(* Finalization (main.cpp:370-405)                                         *)
(***************************************************************************)
\* main.cpp:371
blockUntilMappingIsFinished ==
  /\ Running /\ pc = "block"
  /\ finLog' = Append(finLog, <<"block", fullSystem.id>>)
  /\ pc' = "persist"
  /\ UNCHANGED <<cfgVars, fullSystem, envVars, planVars, loopVars, mainVars,
                 nEngines, fed, skipped, fedAfterDead, lostSeen, owLog,
                 owResets, asked, pausedWork, lossReported, stats,
                 pacing>>

\* main.cpp:372-377
printResult ==
  /\ Running /\ pc = "persist"
  /\ \E t \in ClockReadings : now' = t
  /\ finLog' = Append(finLog, <<"persist", fullSystem.id>>)
  /\ pc' = "stats"
  /\ UNCHANGED <<cfgVars, fullSystem, Pause, setting_fullResetRequested,
                 isDead, process, caught, planVars, loopVars, mainVars,
                 nEngines, fed, skipped, fedAfterDead, lostSeen, owLog,
                 owResets, asked, pausedWork, lossReported, stats,
                 pacing>>

\* main.cpp:380-395: idsToPlay[0] and idsToPlay.back() of an empty vector are
\* undefined: the read faults, or yields whatever the memory holds
Statistics ==
  /\ Running /\ pc = "stats"
  /\ IF Len(idsToPlay) = 0
       THEN \/ /\ process' = "crashed"
               /\ UNCHANGED <<pc, finLog, stats, asked>>
            \/ /\ stats' = GarbageStats
               /\ finLog' = Append(finLog, <<"stats", fullSystem.id>>)
               /\ pc' = "log"
               /\ UNCHANGED <<process, asked>>
       ELSE /\ stats' = Abs(idsToPlay[1] - idsToPlay[Len(idsToPlay)])
            /\ asked' = asked \cup {idsToPlay[1], idsToPlay[Len(idsToPlay)]}
            /\ finLog' = Append(finLog, <<"stats", fullSystem.id>>)
            /\ pc' = "log"
            /\ process' = process
  /\ UNCHANGED <<cfgVars, fullSystem, Pause, setting_fullResetRequested,
                 isDead, now, caught, planVars, loopVars, mainVars, nEngines,
                 fed, skipped, fedAfterDead, lostSeen, owLog, owResets,
                 pausedWork, lossReported, pacing>>

\* main.cpp:100,190
setting_logStuff == ~args.nolog /\ args.preset \notin {2, 3}

\* main.cpp:397-405
TimingLog ==
  /\ Running /\ pc = "log"
  /\ finLog' = IF setting_logStuff
                 THEN Append(finLog, <<"timelog", fullSystem.id>>) ELSE finLog
  /\ pc' = "done"
  /\ UNCHANGED <<cfgVars, fullSystem, envVars, planVars, loopVars, mainVars,
                 nEngines, fed, skipped, fedAfterDead, lostSeen, owLog,
                 owResets, asked, pausedWork, lossReported, stats,
                 pacing>>

\* the steps of runthread
Session ==
  \/ BuildPlan \/ PreloadAll \/ PauseLoop \/ Decode \/ Pace \/ addActiveFrame
  \/ CheckDead \/ CheckReset \/ CheckBound \/ ResetWrappers \/ ResetEngine
  \/ ClearResetRequest
  \/ CheckLost \/ blockUntilMappingIsFinished \/ printResult \/ Statistics
  \/ TimingLog

(***************************************************************************)
(* The main thread (main.cpp:410-434)                                      *)
(***************************************************************************)
\* main.cpp:410-411: viewer->run() returns when the display has closed
ViewerRun ==
  /\ Running /\ mpc = "run"
  /\ isDead' = IF viewer # 0 THEN TRUE ELSE isDead
  /\ mpc' = "join"
  /\ UNCHANGED <<cfgVars, fullSystem, Pause, setting_fullResetRequested, now,
                 process, caught, pc, planVars, loopVars, owIdx, nEngines,
                 histVars>>

\* mutant: the main thread does not wait for the session thread
JoinRunthreadNoWait ==
  /\ Running /\ mpc = "join"
  /\ mpc' = "teardown"
  /\ owIdx' = 0
  /\ UNCHANGED <<cfgVars, fullSystem, envVars, pc, planVars, loopVars,
                 nEngines, histVars>>

\* main.cpp:413
JoinRunthread ==
  /\ Running /\ mpc = "join" /\ pc = "done"
  /\ mpc' = "teardown"
  /\ owIdx' = 0
  /\ UNCHANGED <<cfgVars, fullSystem, envVars, pc, planVars, loopVars,
                 nEngines, histVars>>

\* main.cpp:415-419
JoinWrappers ==
  /\ Running /\ mpc = "teardown"
  /\ IF owIdx < Len(fullSystem.outputWrapper)
       THEN /\ owLog' = owLog \o
                 <<[op |-> "join", ow |-> fullSystem.outputWrapper[owIdx + 1]],
                   [op |-> "delete", ow |-> fullSystem.outputWrapper[owIdx + 1]]>>
            /\ owIdx' = owIdx + 1
            /\ mpc' = mpc
       ELSE /\ mpc' = "delete"
            /\ UNCHANGED <<owLog, owIdx>>
  /\ UNCHANGED <<cfgVars, fullSystem, envVars, pc, planVars, loopVars,
                 nEngines, fed, skipped, fedAfterDead, lostSeen, finLog,
                 owResets, asked, pausedWork, lossReported, stats,
                 pacing>>

\* DatasetReader.h:197-206: ~ImageFolderReader releases databuffer, which was
\* allocated with new char[] (DatasetReader.h:371,379), by a scalar delete
\* (DatasetReader.h:201): undefined when an archive entry was read, the
\* process may fault in it
DeleteReader == IF reader.databuffer # 0 THEN {"returned", "crashed"}
                ELSE {"returned"}

\* main.cpp:423-434: delete fullSystem, delete reader, return 0; the main
\* thread takes no step after it
DeleteAndReturn ==
  /\ Running /\ mpc = "delete"
  /\ fullSystem' = NoEngine
  /\ reader' = [reader EXCEPT !.deleted = TRUE]
  /\ process' \in DeleteReader
  /\ mpc' = "end"
  /\ UNCHANGED <<args, ret, Pause, setting_fullResetRequested, isDead, now,
                 caught, pc, planVars, loopVars, owIdx, nEngines, histVars>>

(***************************************************************************)
(* Other threads: the pause and reset requests, SIGINT (main.cpp:29-44)    *)
(***************************************************************************)
\* the process-wide Pause flag is set or cleared by another thread
SetPause ==
  /\ Running /\ Pause' = ~Pause
  /\ pausedWork' = <<>>
  /\ UNCHANGED <<cfgVars, fullSystem, setting_fullResetRequested, isDead, now,
                 process, caught, pc, planVars, loopVars, mainVars, nEngines,
                 fed, skipped, fedAfterDead, lostSeen, finLog, owLog, owResets,
                 asked, lossReported, stats,
                 pacing>>

\* another thread asserts setting_fullResetRequested
RequestFullReset ==
  /\ Running /\ ~setting_fullResetRequested
  /\ setting_fullResetRequested' = TRUE
  /\ UNCHANGED <<cfgVars, fullSystem, Pause, isDead, now, process, caught, pc,
                 planVars, loopVars, mainVars, nEngines, histVars>>

\* main.cpp:32: exit(1) in a signal handler of a process whose other
\* threads are running is not async-signal-safe: the process ends with
\* status 1, or faults while exit runs
HandlerExit == {"exit1", "crashed"}

\* main.cpp:29-31: SIGINT is delivered to some thread, which enters the
\* handler and prints; the other threads go on running
my_exit_handler ==
  /\ Running /\ ~caught
  /\ caught' = TRUE
  /\ UNCHANGED <<cfgVars, fullSystem, Pause, setting_fullResetRequested,
                 isDead, now, process, pc, planVars, loopVars, mainVars,
                 nEngines, histVars>>

\* main.cpp:32: exit(1) ends the process
exitInHandler ==
  /\ Running /\ caught
  /\ process' \in HandlerExit
  /\ UNCHANGED <<cfgVars, fullSystem, Pause, setting_fullResetRequested,
                 isDead, now, caught, pc, planVars, loopVars, mainVars,
                 nEngines, histVars>>

Next ==
  \/ BuildPlan \/ PreloadAll \/ PauseLoop \/ Decode \/ Pace \/ addActiveFrame
  \/ CheckDead \/ CheckReset \/ CheckBound \/ ResetWrappers \/ ResetEngine
  \/ ClearResetRequest
  \/ CheckLost \/ blockUntilMappingIsFinished \/ printResult \/ Statistics
  \/ TimingLog \/ ViewerRun \/ JoinRunthread \/ JoinWrappers \/ DeleteAndReturn
  \/ SetPause \/ RequestFullReset \/ my_exit_handler \/ exitInHandler


(***************************************************************************)
(* ImageFolderReader (DatasetReader.h:128-545)                             *)
(***************************************************************************)
\* every variable but reader, ret and process
sessionVars == <<args, fullSystem, Pause, setting_fullResetRequested, isDead,
                 now, caught, pc, planVars, loopVars, mainVars, nEngines,
                 histVars>>

\* DatasetReader.h:496-508: the lines of times.txt that sscanf accepts; a
\* line "id stamp" is kept with exposure 0
ParsedLines(file) == SelectSeq(file, LAMBDA l : l.ok)

\* DatasetReader.h:514-526: the loop repairs in place, from the first entry
\* to the last, so exposures[i-1] is the value already repaired; sum/num is
\* a floating-point division, the mean is kept as a fraction
RECURSIVE FixExposures(_, _)
FixExposures(e, i) ==
  IF i > Len(e) THEN e
  ELSE LET left == IF i > 1 /\ e[i - 1].num > 0 THEN <<e[i - 1]>> ELSE <<>>
           right == IF i + 1 <= Len(e) /\ e[i + 1].num > 0
                      THEN <<e[i + 1]>> ELSE <<>>
           near == left \o right
           sum == IF Len(near) = 2 THEN Plus(near[1], near[2])
                  ELSE IF Len(near) = 1 THEN near[1] ELSE Whole(0)
           fixed == IF e[i].num = 0 /\ Len(near) > 0
                      THEN Frac(sum.num, sum.den * Len(near)) ELSE e[i]
       IN FixExposures([e EXCEPT ![i] = fixed], i + 1)

\* DatasetReader.h:513,527
ExposuresGood(e, n) == Len(e) = n /\ \A i \in 1..Len(e) : e[i].num # 0

\* mutant: a timestamp count different from the catalog size is accepted
ClearBothNever(n, ts) == FALSE

\* DatasetReader.h:531
ClearBoth(n, ts) == n # Len(ts)

\* DatasetReader.h:481-545
Reconciled(r) ==
  LET lines == ParsedLines(r.times_txt)
      ts == [k \in 1..Len(lines) |-> lines[k].stamp]
      ex == FixExposures([k \in 1..Len(lines) |-> Whole(lines[k].exposure)], 1)
      good == ExposuresGood(ex, r.numImages)
      ts1 == IF ClearBoth(r.numImages, ts) THEN <<>> ELSE ts
      ex1 == IF ClearBoth(r.numImages, ts) THEN <<>> ELSE ex
      ex2 == IF r.numImages # Len(ex1) \/ ~good THEN <<>> ELSE ex1
  IN [r EXCEPT !.timestamps = ts1, !.exposures = ex2, !.loaded = TRUE]

\* DatasetReader.h:128-186: the reader before loadTimestamps() runs
NewReader(n, file, zipped, w, h) ==
  [numImages |-> n, times_txt |-> file, isZipped |-> zipped,
   widthOrg |-> w, heightOrg |-> h, gamma |-> 1, loaded |-> FALSE,
   timestamps |-> <<>>, exposures |-> <<>>, databuffer |-> 0,
   deleted |-> FALSE]

\* DatasetReader.h:187: the constructor calls loadTimestamps()
loadTimestamps ==
  /\ Running /\ ~reader.loaded
  /\ reader' = Reconciled(reader)
  /\ UNCHANGED <<sessionVars, ret, process>>

\* a call of getTimestamp (DatasetReader.h:281-287)
QueryTimestamp ==
  /\ Running /\ reader.loaded
  /\ \E id \in -1..(getNumImages + 1) :
       ret' = [NoRet EXCEPT !.call = "getTimestamp", !.returned = TRUE,
                            !.id = id, !.timestamp = getTimestamp(id)]
  /\ UNCHANGED <<sessionVars, reader, process>>

\* DatasetReader.h:360-396: getImageRaw_internal on entry id; a write past
\* the end of databuffer is undefined: the process faults in it, or goes on
\* to the size check that exits
ReadEntry(r) ==
  IF ~reader.isZipped
    THEN /\ ret' = [r EXCEPT !.returned = TRUE, !.reads = 1, !.readbytes = r.size]
         /\ UNCHANGED <<reader, process>>
    ELSE LET rr == RawRead(reader.databuffer, r.size,
                           reader.widthOrg * reader.heightOrg)
         IN /\ reader' = [reader EXCEPT !.databuffer = rr.databuffer]
            /\ ret' = [r EXCEPT !.returned = ~rr.abort, !.reads = rr.reads,
                                !.readbytes = rr.readbytes]
            /\ IF rr.abort
                 THEN process' \in (IF rr.overflow THEN {"exit1", "crashed"}
                                    ELSE {"exit1"})
                 ELSE process' \in (IF rr.overflow THEN {process, "crashed"}
                                    ELSE {process})

\* DatasetReader.h:314-317
getImageRaw ==
  /\ Running /\ reader.loaded
  /\ \E id \in 0..(getNumImages - 1), size \in EntrySizes :
       ReadEntry([NoRet EXCEPT !.call = "getImageRaw", !.id = id, !.size = size])
  /\ UNCHANGED sessionVars

\* DatasetReader.h:468
FrameTimestamp(id) ==
  IF Len(reader.timestamps) = 0 THEN 0 ELSE reader.timestamps[id + 1]

\* DatasetReader.h:467
FrameExposure(id) ==
  IF Len(reader.exposures) = 0 THEN Whole(NeutralExposure)
  ELSE reader.exposures[id + 1]

\* DatasetReader.h:328-331,464-470: getImage (8-bit gray): the raw read, then
\* undistort with the frame's exposure and timestamp
getImage ==
  /\ Running /\ reader.loaded
  /\ \E id \in 0..(getNumImages - 1), size \in EntrySizes :
       ReadEntry([NoRet EXCEPT !.call = "getImage", !.id = id, !.size = size,
                               !.exposure = FrameExposure(id),
                               !.timestamp = FrameTimestamp(id)])
  /\ UNCHANGED sessionVars

(***************************************************************************)
(* Specifications                                                          *)
(***************************************************************************)
Args(st, en, rev, pre, ps, sp, ng, so) ==
  [startindex |-> st, endindex |-> en, reverse |-> rev, preload |-> pre,
   preset |-> ps, speed |-> sp, nogui |-> ng, usesampleoutput |-> so,
   nolog |-> FALSE]

\* the lines times.txt may hold: one that does not parse, or stamp (ms) and
\* exposure
FileLines ==
  {[ok |-> FALSE, stamp |-> 0, exposure |-> 0]}
    \cup {[ok |-> TRUE, stamp |-> t * 1000, exposure |-> e] :
            t \in {0, MaxStamp}, e \in {0, 2, 3}}

\* the files of at most k lines
RECURSIVE FilesUpTo(_)
FilesUpTo(k) ==
  IF k = 0 THEN {<<>>}
  ELSE LET shorter == FilesUpTo(k - 1)
       IN shorter \cup {Append(f, l) : f \in {g \in shorter : Len(g) = k - 1},
                                       l \in FileLines}

\* a constructed reader of n images without times.txt
Reader(n) == Reconciled(NewReader(n, <<>>, FALSE, 1, 1))

\* a constructed reader of n frames of 1 x 1 pixels in a .zip archive
ZipReader(n) == Reconciled(NewReader(n, <<>>, TRUE, 1, 1))

\* the session: small catalogs, both directions, unpaced (preset 0) and
\* paced at speed 1 (preset 1), with and without a display; and paced at
\* --speed 3 (4: none of the numbered presets)
Init ==
  \/ \E n \in 0..MaxFrames, rev \in BOOLEAN, ps \in {0, 1}, ng \in BOOLEAN :
       InitWith(Args(0, DefaultEnd, rev, ng, ps, 0, ng, TRUE), Reader(n), 0)
  \/ \E n \in 1..MaxFrames :
       InitWith(Args(0, DefaultEnd, FALSE, TRUE, 4, 3, TRUE, TRUE), Reader(n), 0)

Spec == Init /\ [][Next]_vars

\* a plan longer than ResetBound: reverse playback of a long catalog, unpaced
InitLong ==
  InitWith(Args(0, DefaultEnd, TRUE, FALSE, 0, 0, TRUE, TRUE),
           Reader(LongFrames), MaxClock)

\* the session thread and the thread that requests resets
NextLong == Session \/ RequestFullReset

SpecLong == InitLong /\ [][NextLong]_vars

\* paced forward sessions that start next to the reset bound, where frame id
\* and plan position differ in size and in parity: at speed 1 (preset 1) and
\* at --speed 3 and -1
InitHigh ==
  \E st \in {ResetBound - 1, ResetBound + 1},
     mode \in {<<1, 0>>, <<4, 3>>, <<4, -1>>} :
    InitWith(Args(st, DefaultEnd, FALSE, FALSE, mode[1], mode[2], TRUE, TRUE),
             Reader(LongFrames), 0)

\* sessions in which frame ids and plan positions differ
InitIndex == InitLong \/ InitHigh

SpecIndex == InitIndex /\ [][NextLong]_vars

\* plan construction over all index bounds, then the session thread alone
InitPlan ==
  \/ \E n \in 0..MaxId, st \in -2..(MaxId + 1), en \in -2..(MaxId + 2),
        rev \in BOOLEAN, pre \in BOOLEAN :
       InitWith(Args(st, en, rev, pre, 0, 0, TRUE, TRUE), Reader(n), MaxClock)
  \/ \* 8 frames, start 0, end 10, reversed
     InitWith(Args(0, 10, TRUE, FALSE, 0, 0, TRUE, TRUE), Reader(8), MaxClock)
  \/ \* a .zip dataset, read in the preload pass or frame by frame
     \E n \in 1..MaxFrames, pre \in BOOLEAN :
       InitWith(Args(0, DefaultEnd, FALSE, pre, 0, 0, TRUE, TRUE),
                ZipReader(n), MaxClock)

SpecPlan == InitPlan /\ [][Session]_vars

\* the unpaced session with a display, under a scheduler that lets
\* runthread run whenever it can
InitFair ==
  \E n \in 1..MaxFrames :
    InitWith(Args(0, DefaultEnd, FALSE, FALSE, 0, 0, FALSE, FALSE), Reader(n), 0)

SpecFair == InitFair /\ [][Next]_vars /\ WF_vars(Session)

\* unpaced sessions with both output collaborators, over a folder and over
\* a .zip archive, up to the return of main
InitTeardown ==
  \E n \in 1..MaxFrames, zip \in BOOLEAN :
    InitWith(Args(0, DefaultEnd, FALSE, FALSE, 0, 0, FALSE, TRUE),
             IF zip THEN ZipReader(n) ELSE Reader(n), 0)

SpecTeardown == InitTeardown /\ [][Next]_vars

\* times.txt of n lines that parse, with a valid exposure and any stamps
\* (not sorted: the reader does not sort them), or no file
StampFiles(n) ==
  {<<>>} \cup {[k \in 1..n |-> [ok |-> TRUE, stamp |-> st[k] * 1000, exposure |-> 2]] :
                 st \in [1..n -> 0..MaxStamp]}

\* the session thread alone over loaded and synthetic timestamps, every
\* preset (4: none of the numbered presets) and --speed 0, 2, 3 or -1
InitTimes ==
  \E n \in 0..MaxFrames, rev \in BOOLEAN, ps \in 0..4, sp \in {0, 2, 3, -1} :
    \E f \in StampFiles(n) :
      InitWith(Args(0, DefaultEnd, rev, FALSE, ps, sp, TRUE, TRUE),
               Reconciled(NewReader(n, f, FALSE, 1, 1)), MaxClock)

SpecTimes == InitTimes /\ [][Session]_vars

\* the reader from its construction on: loadTimestamps, then queries
InitLoad ==
  \E n \in 0..MaxFrames, f \in FilesUpTo(MaxLines) :
    InitWith(Args(0, DefaultEnd, FALSE, FALSE, 0, 0, TRUE, TRUE),
             NewReader(n, f, FALSE, 1, 1), 0)

NextLoad == loadTimestamps \/ QueryTimestamp \/ getImage

SpecLoad == InitLoad /\ [][NextLoad]_vars

\* a reader over a .zip archive, small and larger frames (w x h)
InitArchive ==
  \E n \in 1..MaxFrames, dim \in {<<1, 1>>, <<25, 20>>} :
    InitWith(Args(0, DefaultEnd, FALSE, FALSE, 0, 0, TRUE, TRUE),
             NewReader(n, <<>>, TRUE, dim[1], dim[2]), 0)

NextArchive == loadTimestamps \/ getImageRaw \/ getImage

SpecArchive == InitArchive /\ [][NextArchive]_vars

(***************************************************************************)
(* Properties                                                              *)
(***************************************************************************)
LoopPcs == {"pause", "decode", "pace", "feed", "isDead", "chkReset",
            "chkBound", "reset", "recreate", "clearFlag", "isLost"}
FinalPcs == {"block", "persist", "stats", "log", "done"}
Up(a, b) == [k \in 1..Max(b - a + 1, 0) |-> a + k - 1]
Down(a, b) == [k \in 1..Max(a - b + 1, 0) |-> a - k + 1]
Steps(log) == [k \in 1..Len(log) |-> log[k][1]]

\* C1: the frames handed to the engine are handed in strictly increasing
\* plan position, each position at most once, and a position whose frame
\* was marked skipped is never handed to the engine.
C1_FedInPlanOrder ==
  /\ \A k \in 1..Len(fed) :
       fed[k] \in 0..(Len(idsToPlay) - 1) /\ fed[k] \notin skipped
  /\ \A k \in 1..(Len(fed) - 1) : fed[k] < fed[k + 1]

C1_Witness ==
  /\ Len(fed) >= 2 /\ nEngines >= 2
  /\ \E p \in skipped : p < fed[Len(fed)]

\* C2: the engine is recreated only if the engine reports initialization
\* failure or the full-reset flag is set, and in addition the plan position
\* is below 250 or the flag is set; with initialization failure at position
\* 250 or above and the flag clear the engine is left unchanged and the
\* loop goes on to the lost check with the same engine.
C2_ResetEligibility ==
  [][ /\ (fullSystem'.id # fullSystem.id) =>
            /\ fullSystem.initFailed \/ setting_fullResetRequested
            /\ ii < ResetBound \/ setting_fullResetRequested
      /\ (pc = "chkBound" /\ ii >= ResetBound /\ ~setting_fullResetRequested) =>
            /\ pc' \in {"chkBound", "isLost"}
            /\ fullSystem' = fullSystem
      /\ (pc = "chkReset" /\ ~fullSystem.initFailed /\ ~setting_fullResetRequested) =>
            /\ pc' \in {"chkReset", "isLost"}
            /\ fullSystem' = fullSystem
    ]_vars

C2_Witness ==
  /\ pc = "isLost" /\ ii >= ResetBound /\ fullSystem.initFailed
  /\ ~setting_fullResetRequested /\ nEngines >= 2

\* C3: an honored reset builds a new engine with the same output
\* collaborators in the same order, the same photometric function and the
\* same linearized-mode flag; the plan position is not rewound: ii never
\* decreases and a frame handed to the engine is the one at position ii.
C3_ResetPreserves ==
  [][ /\ (pc = "recreate" /\ pc' # pc) =>
            /\ fullSystem'.id # fullSystem.id
            /\ fullSystem'.outputWrapper = fullSystem.outputWrapper
            /\ fullSystem'.gamma = fullSystem.gamma
            /\ fullSystem'.linearizeOperation = fullSystem.linearizeOperation
            /\ ~fullSystem'.initialized /\ ~fullSystem'.initFailed
            /\ ~fullSystem'.isLost
            /\ ii' = ii /\ fed' = fed
      /\ ii' \in {ii, ii + 1}
      /\ (fed' # fed) => fed' = Append(fed, ii)
    ]_vars

C3_Witness ==
  /\ nEngines >= 2 /\ fullSystem # NoEngine /\ fullSystem.initialized
  /\ fullSystem.outputWrapper = <<"viewer", "sample">>
  /\ owResets["viewer"] >= 1 /\ owResets["sample"] >= 1
  /\ Len(fed) >= 2 /\ fed[Len(fed)] = fed[Len(fed) - 1] + 1

\* C4 as claimed: once an engine has reported tracking loss after a frame
\* was handed to it, the loop exits in that iteration (ii stays) and no
\* later frame is handed to any engine, also when initialization failure or
\* a forced reset is reported in the same iteration.
C4_Original == [][lossReported => (fed' = fed /\ ii' = ii)]_vars

\* C4 amended: when the lost check of an iteration (made after the reset
\* branch, so on the replacement engine if a reset was honored) finds the
\* current engine lost, the loop exits in that iteration; from then on no
\* frame is handed to any engine and the plan position stays, and
\* finalization runs without a fault of its own: block, persist, statistics.
C4_LostTerminal ==
  /\ [][(pc = "isLost" /\ pc' # pc /\ fullSystem.isLost) =>
          (pc' = "block" /\ lostSeen' /\ ii' = ii)]_vars
  /\ [][lostSeen => (fed' = fed /\ ii' = ii /\ lostSeen')]_vars
  /\ [](lostSeen =>
          /\ pc \in FinalPcs
          /\ process = "crashed" => caught
          /\ pc = "done" =>
               /\ Len(finLog) >= 3
               /\ <<finLog[1][1], finLog[2][1], finLog[3][1]>>
                    = <<"block", "persist", "stats">>)

C4_Witness ==
  /\ lostSeen /\ pc = "done" /\ nEngines >= 2 /\ Len(fed) >= 2

\* the finalization steps done so far, by the position of the session thread
C5_FinalizationOrder ==
  /\ pc \in LoopPcs \cup {"plan", "preload", "block"} => finLog = <<>>
  /\ pc = "persist" => Steps(finLog) = <<"block">>
  /\ pc = "stats" => Steps(finLog) = <<"block", "persist">>
  /\ pc = "log" => Steps(finLog) = <<"block", "persist", "stats">>
  /\ pc = "done" =>
       Steps(finLog) \in {<<"block", "persist", "stats">>,
                          <<"block", "persist", "stats", "timelog">>}
  /\ fullSystem # NoEngine =>
       \A k \in 1..Len(finLog) : finLog[k][2] = fullSystem.id

\* C5 as claimed: on every graceful exit path of the loop (end of plan,
\* display not alive, tracking loss) finalization runs exactly once, in the
\* order block, persist, statistics, on the engine current at loop exit, and
\* is not cut short: the process does not fault in it.
C5_Original == C5_FinalizationOrder /\ (process = "crashed" => caught)

\* C6 as claimed: once the display is not alive the session thread hands at
\* most one further frame to the engine and eventually leaves the playback
\* loop (unless the process is terminated), also while the pause flag is set.
C6_Original ==
  /\ [](fedAfterDead <= 1)
  /\ (isDead ~> (pc \in FinalPcs \/ ~Running))

\* what the loop does guarantee on display exit: at most one further frame
\* is handed to the engine, and the loop is left for finalization provided
\* the pause flag is eventually clear for good.
C6_DisplayExit ==
  /\ [](fedAfterDead <= 1)
  /\ (<>[](~Pause)) => (isDead ~> (pc \in FinalPcs \/ ~Running))

C6_Witness ==
  /\ isDead /\ fedAfterDead = 1 /\ pc = "block" /\ ii + 1 < Len(idsToPlay)

\* C7 as claimed: no frame is decoded or handed to the engine and no reset
\* is performed in a step taken while the pause flag is set.
C7_Original ==
  [][Pause => /\ ~(pc = "decode" /\ pc' # pc)
              /\ fed' = fed
              /\ ~(pc = "reset" /\ pc' # pc)]_vars

\* C7 amended: the pause flag is polled only at the top of an iteration: the
\* loop leaves the poll, to the decode of that iteration, only on a poll
\* that finds the flag clear; while the flag stays set at most the rest of
\* the iteration that had passed the poll is done (one decode, one hand-off,
\* one reset); once the flag is clear for good the loop leaves the poll.
C7_PausePolled ==
  /\ [][(pc = "pause" /\ pc' # pc) => (~Pause /\ pc' = "decode")]_vars
  /\ [](/\ Len(pausedWork) <= 3
        /\ \A j, k \in 1..Len(pausedWork) : j # k => pausedWork[j] # pausedWork[k])
  /\ (<>[](~Pause)) => ((pc = "pause") ~> (pc # "pause" \/ ~Running))

C7_Witness ==
  /\ Pause /\ pc = "pause" /\ pausedWork = <<"decode", "feed", "reset">>

\* C8 as claimed: once the termination signal was received the process has
\* terminated with status 1: no finalization step starts, no output
\* collaborator is joined or destroyed, and neither thread takes another
\* step.
C8_Original ==
  /\ [](caught => process = "exit1")
  /\ [][caught => UNCHANGED <<finLog, owLog, pc, mpc>>]_vars

\* C9: every id of the playback plan lies in 0..N-1, and so does every id
\* passed to the decoder (preload pass and loop) or to the timestamp query.
C9_PlanInCatalog ==
  /\ \A k \in 1..Len(idsToPlay) : idsToPlay[k] \in 0..(getNumImages - 1)
  /\ \A k \in 1..Len(preloadedImages) : preloadedImages[k] \in 0..(getNumImages - 1)
  /\ asked \subseteq 0..(getNumImages - 1)
  /\ img = NoImg \/ img \in 0..(getNumImages - 1)

C9_Witness ==
  /\ pc = "done" /\ args.reverse /\ args.endindex > getNumImages
  /\ Len(idsToPlay) >= 2 /\ idsToPlay[1] = getNumImages - 1
  /\ Cardinality(asked) >= 2

\* min(end, N) - 1
Hi == Min(args.endindex, getNumImages) - 1

\* C10 as claimed: ascending the plan is start, ..., min(end, N)-1; reversed
\* it is min(end, N)-1 down to start.
C10_Original ==
  pc # "plan" =>
    idsToPlay = IF args.reverse THEN Down(Hi, args.startindex)
                ELSE Up(args.startindex, Hi)

\* C10 amended: ascending the plan is start, ..., min(end, N)-1 when
\* start >= 0 and empty when start < 0; reversed it is min(end, N)-1 down to
\* max(start + 1, 0): id start is not in the reversed plan.
C10_PlanShape ==
  pc # "plan" =>
    idsToPlay = IF args.reverse THEN Down(Hi, Max(args.startindex + 1, 0))
                ELSE IF args.startindex >= 0 THEN Up(args.startindex, Hi)
                ELSE <<>>

C10_Witness ==
  /\ pc # "plan" /\ args.reverse /\ args.startindex >= 1
  /\ args.endindex > getNumImages /\ Len(idsToPlay) >= 2
  /\ idsToPlay[Len(idsToPlay)] = args.startindex + 1

\* the measured time E (ms) read at t exceeds the limit L (ms): when the two
\* are the same fraction the deviations of the values compared decide
Above(E, L, t) == Less(L, E) \/ (E = L /\ LateDev(t) > 0)

\* the measured time does not exceed the limit; when neither holds the
\* model does not carry the bits that decide
NotAbove(E, L, t) ==
  Less(E, L) \/ (E = L /\ (LateDev(t) < 0 \/ (LateDev(t) = 0 /\ ExactSums)))

\* C12: with speed > 0, for the frame at plan position k with target T and
\* measured elapsed time E: E < T sleeps T - E and the frame is fed;
\* E > T + 0.5 + 0.1*(k % 2) marks it skipped and it is not fed; otherwise it
\* is fed at once.  No frame is both slept for and skipped, and a frame is
\* withheld from the engine exactly when it was marked skipped.
C12_PacingDecision ==
  /\ [][(pc = "pace" /\ pc' = "feed" /\ playbackSpeed # 0) =>
          LET E == pacing'.elapsed
              T == timesToPlayAt[ii + 1]
              L == Plus(T, Whole(SkipSlack + SkipSlackOdd * (ii % 2)))
          IN /\ pacing'.at = ii /\ pacing'.target = T
             /\ Less(E, T) =>
                  /\ pacing'.slept = Plus(T, Neg(E)) /\ ~skipFrame'
                  /\ ~Less(Whole(now'), Plus(Whole(now), pacing'.slept))
             /\ ~Less(E, T) => pacing'.slept = Whole(0)
             /\ (~Less(E, T) /\ Above(E, L, now')) =>
                  (skipFrame' /\ ii \in skipped')
             /\ (~Less(E, T) /\ NotAbove(E, L, now')) => ~skipFrame']_vars
  /\ [][(pc = "feed" /\ pc' # pc) =>
          IF skipFrame THEN fed' = fed ELSE fed' = Append(fed, ii)]_vars
  /\ [](pacing.slept.num > 0 => pacing.at \notin skipped)

\* the measured time agrees with the limit to the millisecond and its
\* single-precision rounding is upward: the frame is skipped
C12_OnLimit ==
  /\ pc = "feed" /\ playbackSpeed # 0 /\ pacing.at = ii /\ ii % 2 = 1
  /\ pacing.elapsed = Plus(pacing.target, Whole(SkipSlack + SkipSlackOdd))
  /\ skipFrame /\ FloatBias(tv_start, now) = 1

\* the measured time agrees with the limit to the millisecond in an
\* iteration that did not re-anchor: ids 0, 1 have the target
\* 0.0399999991 s, the limit is above the measured 0.63999998569 s and the
\* frame is fed
C12_OnLimitFed ==
  /\ pc = "feed" /\ playbackSpeed # 0 /\ pacing.at = ii /\ ii = 1
  /\ sInitializerOffset = Whole(0) /\ idsToPlay[1] = 0
  /\ pacing.elapsed = Plus(pacing.target, Whole(SkipSlack + SkipSlackOdd))
  /\ ~skipFrame /\ LateDev(now) < 0

\* at speed 3 the targets of ids 0, 1, 2 are 0, 13.33 and 26.67 ms: the
\* second frame is slept for 13.33 ms and fed, the third is read 600 ms
\* later, beyond its limit of 526.67 ms, and skipped
C12_Witness ==
  /\ pc = "isDead" /\ ii = 2 /\ ii \in skipped /\ fed = <<0, 1>>
  /\ playbackSpeed = 3 /\ pacing.at = ii
  /\ pacing.target = Frac(2 * SyntheticStep, 3)
  /\ Less(Plus(pacing.target, Whole(SkipSlack)), pacing.elapsed)

\* at speed 1 the third frame is skipped on a reading 600 ms after the
\* target of the second
C12_SkippedLate ==
  /\ pc = "isDead" /\ ii = 2 /\ ii \in skipped /\ fed = <<0, 1>>
  /\ pacing.at = ii
  /\ \E d \in Elapse \ {0} : pacing.elapsed = Plus(timesToPlayAt[2], Whole(d))

\* at speed 3 the second frame is slept for 40/3 ms
C12_SleptThird ==
  /\ pc = "feed" /\ ii = 1 /\ playbackSpeed = 3 /\ pacing.at = ii
  /\ pacing.slept = Frac(SyntheticStep, 3) /\ ~skipFrame

\* C13: with playback speed 0 the loop never sleeps for pacing, no frame is
\* marked skipped, every plan position visited so far was handed to the
\* engine, and every engine of the session is in linearized mode.
C13_Unpaced ==
  /\ [](playbackSpeed = 0 =>
          /\ skipped = {} /\ ~skipFrame /\ pacing = NoPacing
          /\ \A p \in 0..(ii - 1) : \E k \in 1..Len(fed) : fed[k] = p
          /\ pc \in {"isDead", "chkReset", "chkBound", "reset", "recreate",
                    "clearFlag", "isLost"}
               => (fed # <<>> /\ fed[Len(fed)] = ii)
          /\ fullSystem # NoEngine => fullSystem.linearizeOperation)
  /\ [][(playbackSpeed = 0 /\ pc = "pace" /\ pc' # pc) => now' = now]_vars

C13_Witness ==
  /\ playbackSpeed = 0 /\ pc = "done" /\ nEngines >= 2 /\ fed = <<0, 1, 2>>
  /\ now > tv_start /\ fullSystem # NoEngine /\ fullSystem.linearizeOperation

\* the finite target b is the finite target a plus d / speed: the
\* difference of the fractions, multiplied out
StepIs(a, b, d, speed) ==
  /\ a.den > 0 /\ b.den > 0
  /\ (b.num * a.den - a.num * b.den) * speed = d * a.den * b.den

\* C11: the target offsets are parallel to the plan, the first is 0, and
\* each later one is the previous plus
\* |timestamp(this id) - timestamp(previous id)| / speed (speed not 0), so
\* for speed > 0 they never decrease, in either direction.
C11_TargetOffsets ==
  /\ Len(timesToPlayAt) = Len(idsToPlay)
  /\ timesToPlayAt # <<>> => timesToPlayAt[1] = Whole(0)
  /\ playbackSpeed # 0 =>
       \A k \in 2..Len(timesToPlayAt) :
         StepIs(timesToPlayAt[k - 1], timesToPlayAt[k],
                Abs(getTimestamp(idsToPlay[k]) - getTimestamp(idsToPlay[k - 1])),
                playbackSpeed)
  /\ playbackSpeed > 0 =>
       \A k \in 2..Len(timesToPlayAt) :
         timesToPlayAt[k - 1].num * timesToPlayAt[k].den
           <= timesToPlayAt[k].num * timesToPlayAt[k - 1].den

\* speed 2 and timestamps 0, 1, 2 s give targets 0, 0.5, 1.0 s
C11_Witness ==
  /\ pc = "done" /\ playbackSpeed = 2 /\ ~args.reverse
  /\ reader.timestamps = <<0, 1000, 2000>>
  /\ timesToPlayAt = <<Whole(0), Whole(500), Whole(1000)>>

\* speed 3 and timestamps 0, 1, 2 s give targets 0, 0.333, 0.667 s
C11_Thirds ==
  /\ pc = "done" /\ playbackSpeed = 3 /\ ~args.reverse
  /\ reader.timestamps = <<0, 1000, 2000>>
  /\ timesToPlayAt = <<Whole(0), Frac(1000, 3), Frac(2000, 3)>>

\* C19 as claimed: when --speed is given, the targets are built with the
\* given speed and the engine is linearized exactly when it is 0, under
\* every preset.
C19_Original ==
  (args.speed # 0 /\ pc # "plan") =>
    /\ \A k \in 2..Len(timesToPlayAt) :
         StepIs(timesToPlayAt[k - 1], timesToPlayAt[k],
                Abs(getTimestamp(idsToPlay[k]) - getTimestamp(idsToPlay[k - 1])),
                args.speed)
    /\ fullSystem # NoEngine => ~fullSystem.linearizeOperation

\* C20 as claimed: a non-empty reversed plan begins at min(end, N) - 1,
\* decreases by exactly 1 per step and stops by step*i < step*lend with
\* lend = start, so its last id is start + 1, and id start is not in it.
C20_Original ==
  (pc # "plan" /\ args.reverse) =>
    /\ idsToPlay # <<>> =>
         /\ idsToPlay[1] = Min(args.endindex, getNumImages) - 1
         /\ \A k \in 1..(Len(idsToPlay) - 1) : idsToPlay[k + 1] = idsToPlay[k] - 1
         /\ idsToPlay[Len(idsToPlay)] = args.startindex + 1
    /\ \A k \in 1..Len(idsToPlay) : idsToPlay[k] # args.startindex

\* C20 amended: a non-empty reversed plan begins at min(end, N) - 1,
\* decreases by exactly 1 per step and ends at start + 1 when start >= -1;
\* with start < -1 the i >= 0 condition stops it first and it ends at 0; id
\* start is not in it; it is empty only when that range is; 8 frames with
\* start 0 and end 10 give 7, 6, ..., 1.
C20_ReversePlan ==
  (pc # "plan" /\ args.reverse) =>
    /\ idsToPlay # <<>> =>
         /\ idsToPlay[1] = Min(args.endindex, getNumImages) - 1
         /\ \A k \in 1..(Len(idsToPlay) - 1) : idsToPlay[k + 1] = idsToPlay[k] - 1
         /\ idsToPlay[Len(idsToPlay)] = Max(args.startindex + 1, 0)
    /\ \A k \in 1..Len(idsToPlay) : idsToPlay[k] # args.startindex
    /\ idsToPlay = <<>> =>
         Min(args.endindex, getNumImages) - 1 < Max(args.startindex + 1, 0)
    /\ (getNumImages = 8 /\ args.startindex = 0 /\ args.endindex = 10) =>
         idsToPlay = <<7, 6, 5, 4, 3, 2, 1>>

C20_Witness ==
  /\ pc = "done" /\ args.reverse /\ getNumImages = 8
  /\ args.startindex = 0 /\ args.endindex = 10
  /\ idsToPlay = <<7, 6, 5, 4, 3, 2, 1>> /\ fed # <<>>

\* a reversed plan with start -2 ends at id 0, stopped by i >= 0
C20_NegativeStart ==
  /\ pc = "done" /\ args.reverse /\ args.startindex = -2
  /\ idsToPlay # <<>> /\ idsToPlay[Len(idsToPlay)] = 0

\* width * height of the original frames
Pixels == reader.widthOrg * reader.heightOrg

\* C14: a call that reads an archive entry reads it at most twice; an entry
\* within the first threshold (6 bytes per pixel) is decoded from the first
\* read; one above it but within the second (30 bytes per pixel) is decoded
\* from the retry with all of its bytes; one above both ends the process
\* and is never decoded.
C14_ArchiveRead ==
  (reader.isZipped /\ ret.call \in {"getImageRaw", "getImage"}) =>
    /\ ret.reads \in {1, 2}
    /\ ret.size <= Pixels * SmallFactor =>
         (ret.returned /\ ret.reads = 1 /\ ret.readbytes = ret.size)
    /\ (ret.size > Pixels * SmallFactor /\ ret.size <= Pixels * LargeFactor) =>
         (ret.returned /\ ret.reads = 2 /\ ret.readbytes = ret.size)
    /\ ret.size > Pixels * LargeFactor =>
         (~ret.returned /\ process \in {"exit1", "crashed"})
    /\ ret.returned => process = "running"

C14_Witness ==
  /\ reader.isZipped /\ ret.call = "getImage" /\ ret.returned
  /\ ret.reads = 2 /\ ret.readbytes = Pixels * LargeFactor
  /\ ret.size > Pixels * SmallFactor + BufferSlack

\* a session over a .zip dataset has read a frame through the retry path:
\* databuffer is left with 30 bytes per pixel
ZipRetried ==
  /\ reader.isZipped /\ process = "running" /\ pc = "pace" /\ ~preload
  /\ reader.databuffer = Pixels * LargeFactor /\ asked # {}

\* the preload pass of a .zip dataset has ended the process at its second
\* frame, before the playback loop, with the first frame preloaded
ZipPreloadExit ==
  /\ reader.isZipped /\ preload /\ pc = "preload" /\ process = "exit1"
  /\ asked = {0, 1} /\ preloadedImages = <<0>>

\* a frame fetched in the loop has overrun databuffer and the process has
\* faulted
ZipDecodeFault ==
  /\ reader.isZipped /\ ~preload /\ pc = "decode" /\ process = "crashed"
  /\ ii = 1 /\ asked = {0, 1}

\* the exposures of the lines of times.txt that parse
RawExposures ==
  [k \in 1..Len(ParsedLines(reader.times_txt)) |->
     ParsedLines(reader.times_txt)[k].exposure]

\* the nearest non-zero entry of e before (d = -1) or after (d = 1)
\* position i, as a sequence of at most one value
RECURSIVE NearestValid(_, _, _)
NearestValid(e, i, d) ==
  IF i + d < 1 \/ i + d > Len(e) THEN <<>>
  ELSE IF e[i + d] # 0 THEN <<e[i + d]>>
  ELSE NearestValid(e, i + d, d)

\* the repair as claimed: each zero becomes the average of its nearest
\* valid neighbours on either side
ClaimedRepair(e) ==
  [i \in 1..Len(e) |->
     LET near == NearestValid(e, i, -1) \o NearestValid(e, i, 1)
     IN IF e[i] # 0 \/ near = <<>> THEN Whole(e[i])
        ELSE IF Len(near) = 2 THEN Frac(near[1] + near[2], 2)
        ELSE Whole(near[1])]

\* C15 as claimed: after loading a file with one line per frame, a series
\* with at least one non-zero exposure is kept, every zero replaced by the
\* average of its nearest valid neighbours on either side; a series of
\* zeros only is discarded.
C15_Original ==
  (reader.loaded /\ Len(RawExposures) = getNumImages /\ getNumImages > 0) =>
    IF \E i \in 1..Len(RawExposures) : RawExposures[i] # 0
      THEN reader.exposures = ClaimedRepair(RawExposures)
      ELSE reader.exposures = <<>>

\* C16: after loading, the timestamp series has length 0 or N, the exposure
\* series has length 0 or N, exposures are only kept with timestamps, a kept
\* exposure series has no 0, and a number of parsed lines other than N
\* leaves both series empty.
C16_SeriesLengths ==
  reader.loaded =>
    /\ Len(reader.timestamps) \in {0, getNumImages}
    /\ Len(reader.exposures) \in {0, getNumImages}
    /\ reader.exposures # <<>> => reader.timestamps # <<>>
    /\ \A i \in 1..Len(reader.exposures) :
         reader.exposures[i].num # 0 /\ reader.exposures[i].den > 0
    /\ Len(ParsedLines(reader.times_txt)) # getNumImages =>
         (reader.timestamps = <<>> /\ reader.exposures = <<>>)

\* the exposures 2, 0, 3 are kept as 2, 2.5, 3
C16_Witness ==
  /\ reader.loaded /\ getNumImages = 3 /\ RawExposures = <<2, 0, 3>>
  /\ Len(reader.timestamps) = 3
  /\ reader.exposures = <<Whole(2), Frac(5, 2), Whole(3)>>

\* a file with a line that does not parse and one line per frame: both
\* series are kept, the zero repaired
C16_BadLine ==
  /\ reader.loaded /\ getNumImages = 2 /\ Len(reader.times_txt) = 3
  /\ Len(reader.timestamps) = 2 /\ Len(reader.exposures) = 2
  /\ \E i \in 1..Len(RawExposures) : RawExposures[i] = 0

\* C17: getTimestamp(id) is id * 0.04 s for every id when no series is
\* loaded (the single-precision product id*0.04f: id * 40 ms to the
\* millisecond, and within 2^-20 s of it); with a series it is 0 for an id
\* below 0 or at or above the series length, and otherwise the stamp of
\* line id of times.txt.
C17_GetTimestamp ==
  ret.call = "getTimestamp" =>
    IF reader.timestamps = <<>>
      THEN /\ ret.timestamp = ret.id * SyntheticStep
           /\ Abs(StampDev(ret.id)) < 125 * 2^13
      ELSE IF ret.id < 0 \/ ret.id >= Len(reader.timestamps)
        THEN ret.timestamp = 0
        ELSE /\ ret.timestamp = reader.timestamps[ret.id + 1]
             /\ ret.timestamp = ParsedLines(reader.times_txt)[ret.id + 1].stamp

\* without times.txt, timestamp(4) = 0.16 s
C17_Witness ==
  /\ ret.call = "getTimestamp" /\ reader.times_txt = <<>>
  /\ getNumImages = 3 /\ ret.id = 4 /\ ret.timestamp = 160

\* C18 as claimed: the timestamp and exposure that getImage attaches to the
\* frame of id are what getTimestamp(id) returns and the reconciled exposure
\* of id (1.0 without a series), with and without a loaded series.
C18_Original ==
  (ret.call = "getImage" /\ ret.returned) =>
    /\ ret.timestamp = getTimestamp(ret.id)
    /\ ret.exposure = IF reader.exposures = <<>> THEN Whole(NeutralExposure)
                      ELSE reader.exposures[ret.id + 1]

\* C21: an iteration that starts with the engine not initialized sets the
\* wall-clock origin to the clock reading and the initializer offset to the
\* target of its plan position; one that starts with it initialized changes
\* neither, and nothing else in the loop changes them.  An honored reset
\* leaves an uninitialized engine, so in the next iteration the elapsed time
\* measured for pacing is the target plus only the time since that
\* re-anchoring, and the iteration never sleeps.
C21_Reanchor ==
  /\ [][(pc = "decode" /\ pc' # pc) =>
          IF ~fullSystem.initialized
            THEN /\ tv_start' = now' /\ now' >= now
                 /\ sInitializerOffset' = timesToPlayAt[ii + 1]
            ELSE UNCHANGED <<tv_start, sInitializerOffset>>]_vars
  /\ [][(pc = "decode"
           /\ <<tv_start, sInitializerOffset>>' # <<tv_start, sInitializerOffset>>) =>
          /\ ~fullSystem.initialized
          /\ tv_start' = now' /\ now' >= now
          /\ sInitializerOffset' = timesToPlayAt[ii + 1]]_vars
  /\ [][(pc \in LoopPcs /\ pc # "decode") =>
          UNCHANGED <<tv_start, sInitializerOffset>>]_vars
  /\ [][(pc = "recreate" /\ pc' # pc) => ~fullSystem'.initialized]_vars
  /\ []((pc = "feed" /\ ~fullSystem.initialized /\ playbackSpeed # 0) =>
          /\ sInitializerOffset = timesToPlayAt[ii + 1]
          /\ pacing.at = ii /\ pacing.slept = Whole(0)
          /\ \E d \in 0..(now - tv_start) :
               pacing.elapsed = Plus(pacing.target, Whole(d)))

\* after a reset at speed 3 the second frame is paced from its own target,
\* 13.33 ms, measured from the re-anchoring
C21_Witness ==
  /\ pc = "feed" /\ playbackSpeed = 3 /\ nEngines >= 2 /\ ii >= 1
  /\ ~fullSystem.initialized /\ tv_start > 0
  /\ sInitializerOffset = timesToPlayAt[ii + 1] /\ sInitializerOffset.num > 0
  /\ sInitializerOffset.den = 3
  /\ pacing.at = ii /\ pacing.elapsed = pacing.target

\* C22: the archive buffer holds width*height*6 + 10000 bytes when first
\* allocated and width*height*30 + 10000 bytes after the first overflow, the
\* bytes requested by a read (width*height*6 + 10000 on a first attempt,
\* width*height*30 + 10000 on a retry) never exceed the capacity of the
\* buffer allocated at that read, and the capacity never decreases.
C22_Original ==
  /\ [](reader.isZipped =>
          /\ reader.databuffer \in {0, Pixels * SmallFactor + BufferSlack,
                                    Pixels * LargeFactor + BufferSlack}
          /\ ret.reads = 2 =>
               reader.databuffer >= Pixels * LargeFactor + BufferSlack
          /\ reader.databuffer # 0 =>
               reader.databuffer >= Pixels * SmallFactor + BufferSlack)
  /\ [][reader'.databuffer >= reader.databuffer]_vars

\* the join and the destruction of each collaborator registered at startup,
\* in registration order
Teardown ==
  [k \in 1..(2 * Len(Wrappers)) |->
     [op |-> IF k % 2 = 1 THEN "join" ELSE "delete",
      ow |-> Wrappers[(k + 1) \div 2]]]

\* C23: whatever the number of resets, the teardown joins and destroys each
\* collaborator registered at startup exactly once: it starts only after the
\* session thread has finished, walks the list of the engine current at
\* exit, which is the list registered at startup, is complete before the
\* engine and the reader are deleted, whatever the deletion of the reader
\* does to the process, and from its first join on the session thread
\* resets no collaborator, polls no display and hands no frame to an engine.
C23_Teardown ==
  /\ [](/\ Len(owLog) <= Len(Teardown)
        /\ \A k \in 1..Len(owLog) : owLog[k] = Teardown[k]
        /\ mpc \in {"delete", "end"} => owLog = Teardown
        /\ mpc \in {"teardown", "delete"} =>
             (pc = "done" /\ fullSystem.outputWrapper = Wrappers)
        /\ (mpc = "end") = reader.deleted)
  /\ [][(mpc \in {"teardown", "delete", "end"}) =>
          (UNCHANGED <<owResets, fed, pc, wraps, nEngines>>)]_vars
  /\ [][(mpc = "end") => UNCHANGED owLog]_vars

\* a session over a .zip archive with a reset has returned from main: both
\* collaborators were joined and destroyed, then the engine and the reader
C23_Witness ==
  /\ process = "returned" /\ mpc = "end" /\ nEngines >= 2
  /\ reader.isZipped /\ reader.databuffer # 0 /\ reader.deleted
  /\ Len(owLog) = 4 /\ owLog[2] = [op |-> "delete", ow |-> "viewer"]
  /\ owLog[4] = [op |-> "delete", ow |-> "sample"]
  /\ owResets["viewer"] >= 1 /\ owResets["sample"] >= 1

\* the same session has faulted in the deletion of the reader, after the
\* teardown of the collaborators
C23_ReaderFault ==
  /\ process = "crashed" /\ ~caught /\ mpc = "end" /\ nEngines >= 2
  /\ reader.isZipped /\ reader.databuffer # 0 /\ owLog = Teardown

\* C24: for every start index, end index, direction and catalog size, the
\* statistics step is reached only with a non-empty plan, so it never reads
\* the first or last entry of an empty plan: no fault and no statistics
\* computed from such a read.
C24_Original ==
  /\ pc = "stats" => Len(idsToPlay) > 0
  /\ ~(pc = "stats" /\ process = "crashed")
  /\ stats # GarbageStats

\* C25: the reset bound and the parity of the skip slack are taken from the
\* plan position ii (the number of iterations done), not from the frame id:
\* without a forced request a reported initialization failure is followed by
\* a reset exactly when ii < 250, and a frame that did not sleep is skipped
\* exactly when its lateness exceeds 500 ms plus 100 ms for odd ii, whatever
\* the id of the frame at that position.
C25_PlanPosition ==
  /\ [][(pc = "chkBound" /\ pc' # pc /\ ~setting_fullResetRequested) =>
          /\ fullSystem.initFailed
          /\ (pc' = "reset") = (ii < ResetBound)]_vars
  /\ [][(pc = "pace" /\ pc' = "feed" /\ playbackSpeed # 0
           /\ pacing'.slept = Whole(0)) =>
          LET L == Plus(pacing'.target,
                        Whole(SkipSlack + SkipSlackOdd * (ii % 2)))
          IN /\ Above(pacing'.elapsed, L, now') => skipFrame'
             /\ NotAbove(pacing'.elapsed, L, now') => ~skipFrame']_vars
  /\ [][(fullSystem'.id # fullSystem.id /\ ~setting_fullResetRequested) =>
          (ii < ResetBound /\ idsToPlay[ii + 1] \in 0..(getNumImages - 1))]_vars

C25_Witness ==
  /\ pc = "isLost" /\ ii >= ResetBound /\ idsToPlay[ii + 1] < ResetBound
  /\ fullSystem.initFailed /\ ~setting_fullResetRequested
  /\ idsToPlay[1] >= ResetBound /\ owResets["sample"] >= 1

\* a paced session started at id 249: the frame at position 0 is skipped on
\* the even slack although its id is odd, and an initialization failure at
\* position 1, frame id 250, is followed by a reset
C25_HighStart ==
  /\ pc = "clearFlag" /\ ii = 1 /\ playbackSpeed # 0
  /\ idsToPlay[1] = ResetBound - 1 /\ 0 \in skipped
  /\ idsToPlay[ii + 1] >= ResetBound

\* the same reading in a session started at id 249: ids 249, 250 have the
\* target 0.03999996185 s, the limit is below the measured time and the
\* frame is skipped
C25_OnLimitSkipped ==
  /\ pc = "feed" /\ playbackSpeed = 1 /\ pacing.at = ii /\ ii = 1
  /\ sInitializerOffset = Whole(0) /\ idsToPlay[1] = ResetBound - 1
  /\ pacing.elapsed = Plus(pacing.target, Whole(SkipSlack + SkipSlackOdd))
  /\ skipFrame /\ LateDev(now) > 0

\* the session started at id 249 at speed -1: ids 249, 250 have the target
\* -0.03999996185 s, the limit 0.56000003815 s is above the measured
\* 0.56000000238 s and the frame is fed
C25_NegativeSpeedFed ==
  /\ pc = "feed" /\ playbackSpeed = -1 /\ pacing.at = ii /\ ii = 1
  /\ sInitializerOffset = Whole(0) /\ idsToPlay[1] = ResetBound - 1
  /\ pacing.target = Whole(-SyntheticStep)
  /\ pacing.elapsed = Plus(pacing.target, Whole(SkipSlack + SkipSlackOdd))
  /\ ~skipFrame /\ LateDev(now) < 0

====
